---- MODULE Spec2Model ----
(***************************************************************************)
(* FERC EQR Explorer (app.py): the regional mapping, the WHERE-clause      *)
(* builder, the two aggregation queries built on it, and the page script   *)
(* that runs them and renders the outcome.                                 *)
(*                                                                         *)
(* Two specifications are given.  Spec is the Streamlit page: every run    *)
(* of the script takes its selection from the widgets.  SpecCall applies   *)
(* the three functions of section 4 of app.py to arguments drawn from a    *)
(* bounded set that also holds values the widgets never offer.             *)
(***************************************************************************)
EXTENDS Integers, Sequences, FiniteSets, TLC

(* Bounds of the exploration *)
\* only the first MaxOption entries of a selectbox are picked
MaxOption == 2
\* slider positions explored: within YearSpan of either end of the slider
YearSpan == 1
\* SpecCall draws its region argument from the first MaxRegions labels
MaxRegions == 3

Range(s) == {s[i] : i \in 1..Len(s)}

Min(a, b) == IF a < b THEN a ELSE b

(***************************************************************************)
(* 2. REGIONAL MAPPING                                                     *)
(***************************************************************************)
\* list(BA_REGIONS.keys()): the keys in declaration order
regionLabels ==
    <<"All Regions",
      "California (CISO)",
      "Northwest (NW)",
      "Southwest (SW)",
      "Midwest (MISO)",
      "Central (SPP)",
      "Southeast (SE)",
      "Mid-Atlantic (PJM)",
      "New York (NYISO)",
      "New England (ISONE)",
      "Canada / Other">>

BA_REGIONS ==
    ("All Regions" :> <<"All Regions">>)
    @@ ("California (CISO)" :>
          <<"CISO", "BANC", "IID", "LDWP", "TIDC", "WALC">>)
    @@ ("Northwest (NW)" :>
          <<"BPAT", "AVA", "CHPD", "DOPD", "GCPD", "GRID", "IPCO", "NWMT",
            "PACE", "PACW", "PGE", "PSEI", "SCL", "TPWR", "WAUW">>)
    @@ ("Southwest (SW)" :>
          <<"AZPS", "EPE", "NEVP", "PNM", "SRP", "TEPC", "WALC", "WACM">>)
    @@ ("Midwest (MISO)" :>
          <<"MISO", "ALTE", "ALTW", "AMIL", "AMMO", "AMRN", "BREC", "CIN",
            "CONS", "DECO", "DPC", "GRE", "HE", "IPL", "MEC", "MECS", "MP",
            "NSP", "OTP", "SIGE", "SMP", "UPPC", "WEC", "WPS">>)
    @@ ("Central (SPP)" :>
          <<"SPP", "AECI", "EDE", "GRDA", "INDN", "KCPL", "LES", "NPPD",
            "OKGE", "OPPD", "SPA", "SPS", "SWPP", "WAUE", "WFEC", "WR">>)
    @@ ("Southeast (SE)" :>
          <<"SOCO", "AEC", "CPLE", "CPLW", "DUK", "FPC", "FPL", "GVL",
            "HST", "JEA", "LGEE", "SC", "SCEG", "TAL", "TEC", "TVA",
            "YAD">>)
    @@ ("Mid-Atlantic (PJM)" :>
          <<"PJM", "AEBN", "AEP", "AP", "BC", "CE", "DAY", "DE", "DL",
            "DOM", "DPL", "DUQ", "EKPC", "FE", "JC", "ME", "PE", "PEP",
            "PL", "PN", "PS", "RE">>)
    @@ ("New York (NYISO)" :> <<"NYIS">>)
    @@ ("New England (ISONE)" :> <<"ISNE">>)
    @@ ("Canada / Other" :>
          <<"AESO", "BCHA", "CFE", "HQT", "IESO", "MHEB", "NBSO", "SPC">>)

CodePointOrder ==
    <<"AEBN", "AEC", "AECI", "AEP", "AESO", "ALTE", "ALTW", "AMIL", "AMMO",
      "AMRN", "AP", "AVA", "AZPS", "All Regions", "BANC", "BC", "BCHA",
      "BPAT", "BREC", "CE", "CFE", "CHPD", "CIN", "CISO", "CONS", "CPLE",
      "CPLW", "DAY", "DE", "DECO", "DL", "DOM", "DOPD", "DPC", "DPL", "DUK",
      "DUQ", "EDE", "EKPC", "EPE", "FE", "FPC", "FPL", "GCPD", "GRDA",
      "GRE", "GRID", "GVL", "HE", "HQT", "HST", "IESO", "IID", "INDN",
      "IPCO", "IPL", "ISNE", "JC", "JEA", "KCPL", "LDWP", "LES", "LGEE",
      "ME", "MEC", "MECS", "MHEB", "MISO", "MP", "NBSO", "NEVP", "NPPD",
      "NSP", "NWMT", "NYIS", "OKGE", "OPPD", "OTP", "PACE", "PACW", "PE",
      "PEP", "PGE", "PJM", "PL", "PN", "PNM", "PS", "PSEI", "RE", "SC",
      "SCEG", "SCL", "SIGE", "SMP", "SOCO", "SPA", "SPC", "SPP", "SPS",
      "SRP", "SWPP", "TAL", "TEC", "TEPC", "TIDC", "TPWR", "TVA", "UPPC",
      "WACM", "WALC", "WAUE", "WAUW", "WEC", "WFEC", "WPS", "WR", "YAD">>

\* CodePointOrder lists the strings of the catalog in the str ordering of
\* Python (code point order), the order sorted() uses
\* sorted(S) for a set S of catalog strings
sorted(S) == SelectSeq(CodePointOrder, LAMBDA c : c \in S)

\* the set comprehension of ALL_BAS_FLAT without its "All Regions" filter
ALL_BAS_FLAT_unfiltered ==
    sorted({ba \in UNION {Range(BA_REGIONS[r]) : r \in DOMAIN BA_REGIONS} :
               TRUE})

ALL_BAS_FLAT ==
    sorted({ba \in UNION {Range(BA_REGIONS[r]) : r \in DOMAIN BA_REGIONS} :
               ba # "All Regions"})

(***************************************************************************)
(* 4. QUERY LOGIC                                                          *)
(***************************************************************************)
\* One element of the list `where`: the condition text split into the
\* column (or expression) tested, the operator, and the interpolated
\* values in the order they are embedded.
Cond(column, op, value) == [column |-> column, op |-> op, value |-> value]

BA_COLUMN == "point_of_delivery_balancing_authority"

YEAR_EXPR == "CAST(substr(year_quarter, 1, 4) AS INTEGER)"

\* the result of a call: either a value, or the exception it raised
Return(v) == [raised |-> "none", value |-> v]

Raise(e) == [raised |-> e, value |-> <<>>]

\* the first branch of the regional logic without the "All Regions" test
RegionalLogic_noGlobalTest(region, ba_selection) ==
    IF ba_selection # ("All BAs in " \o region)
    THEN Return(<<Cond(BA_COLUMN, "=", <<ba_selection>>)>>)
    ELSE IF region # "All Regions"
    THEN IF region \in DOMAIN BA_REGIONS
         THEN Return(<<Cond(BA_COLUMN, "IN", BA_REGIONS[region])>>)
         ELSE Raise("KeyError")
    ELSE Return(<<>>)

\* lines 74-80; BA_REGIONS[region] raises KeyError for a label that is not
\* a key
RegionalLogic(region, ba_selection) ==
    IF /\ ba_selection # ("All BAs in " \o region)
       /\ ba_selection # "All Regions"
    THEN Return(<<Cond(BA_COLUMN, "=", <<ba_selection>>)>>)
    ELSE IF region # "All Regions"
    THEN IF region \in DOMAIN BA_REGIONS
         THEN Return(<<Cond(BA_COLUMN, "IN", BA_REGIONS[region])>>)
         ELSE Raise("KeyError")
    ELSE Return(<<>>)

\* the affiliate logic with the two flag values exchanged
AffiliateLogic_swapped(affiliate) ==
    IF affiliate # "All"
    THEN <<Cond("contract_affiliate", "=",
                <<IF affiliate = "Affiliate" THEN "FALSE" ELSE "TRUE">>)>>
    ELSE <<>>

\* lines 82-84
AffiliateLogic(affiliate) ==
    IF affiliate # "All"
    THEN <<Cond("contract_affiliate", "=",
                <<IF affiliate = "Affiliate" THEN "TRUE" ELSE "FALSE">>)>>
    ELSE <<>>

\* lines 87-90
RateTypeLogic(rate_type) ==
    IF rate_type = "Market-Based"
    THEN <<Cond("product_type_name", "=", <<"MB">>)>>
    ELSE IF rate_type = "Cost-Based"
    THEN <<Cond("product_type_name", "=", <<"CB">>)>>
    ELSE <<>>

\* lines 93-96
ServiceClassLogic(service_type) ==
    IF service_type = "Firm"
    THEN <<Cond("class_name", "=", <<"F">>)>>
    ELSE IF service_type = "Non-Firm"
    THEN <<Cond("class_name", "=", <<"NF">>)>>
    ELSE <<>>

\* the fixed conditions without the positive-rate condition
BaseConditions_noRate(product, year_range) ==
    LET unit == IF product = "ENERGY" THEN "$/MWH" ELSE "$/KW-MO"
        start_year == year_range[1]
        end_year == year_range[2]
    IN  << Cond("product_name", "=", <<product>>),
           Cond("term_name", "=", <<"LT">>),
           Cond("rate_units", "=", <<unit>>),
           Cond(YEAR_EXPR, "BETWEEN", <<start_year, end_year>>) >>

\* lines 62-72: the four fixed conditions and the year condition
BaseConditions(product, year_range) ==
    LET unit == IF product = "ENERGY" THEN "$/MWH" ELSE "$/KW-MO"
        start_year == year_range[1]
        end_year == year_range[2]
    IN  << Cond("product_name", "=", <<product>>),
           Cond("term_name", "=", <<"LT">>),
           Cond("rate_units", "=", <<unit>>),
           Cond("rate", ">", <<0>>),
           Cond(YEAR_EXPR, "BETWEEN", <<start_year, end_year>>) >>

\* The returned string " AND ".join(where) is kept as the list it joins.
build_where_clause(product, region, ba_selection, affiliate, rate_type, service_type, year_range) ==
    LET regional == RegionalLogic(region, ba_selection)
    IN  IF regional.raised # "none"
        THEN Raise(regional.raised)
        ELSE Return(BaseConditions(product, year_range)
                    \o regional.value
                    \o AffiliateLogic(affiliate)
                    \o RateTypeLogic(rate_type)
                    \o ServiceClassLogic(service_type))

s3_path == "s3://pudl.catalyst.coop/ferceqr/core_ferceqr__contracts/*.parquet"

Col(expr, alias) == [expr |-> expr, alias |-> alias]

\* the value of a query variable that was never assigned
NoQuery ==
    [select |-> <<>>, from |-> "", where |-> <<>>, group_by |-> <<>>,
     order_by |-> <<>>, limit |-> 0]

\* lines 106-116: the query text by clause; limit 0 stands for no LIMIT
TrendQuery(where_stmt) ==
    [select |-> << Col("year_quarter", "year_quarter"),
                   Col("approx_quantile(rate, 0.5)", "median_price"),
                   Col("approx_quantile(rate, 0.25)", "p25_price"),
                   Col("approx_quantile(rate, 0.75)", "p75_price"),
                   Col("count(*)", "contract_count") >>,
     from |-> s3_path,
     where |-> where_stmt,
     group_by |-> <<1>>,
     order_by |-> <<"1">>,
     limit |-> 0]

\* lines 124-136
LeaderboardQuery(entity_type, where_stmt) ==
    LET group_col == IF entity_type = "seller"
                     THEN "seller_company_name"
                     ELSE "customer_company_name"
    IN  [select |-> << Col(group_col, "entity_name"),
                       Col("sum(quantity)", "total_volume"),
                       Col("count(*)", "contracts_count") >>,
         from |-> s3_path,
         where |-> where_stmt,
         group_by |-> <<1>>,
         order_by |-> <<"2 DESC">>,
         limit |-> 10]

(***************************************************************************)
(* The rows the conditions are evaluated on (DuckDB's reading of the       *)
(* condition texts of lines 65-96).  A row maps column names to values;    *)
(* year_quarter is a character sequence such as 2 0 1 3 q 1.               *)
(***************************************************************************)
Digits == <<"0", "1", "2", "3", "4", "5", "6", "7", "8", "9">>

DigitChar(d) == Digits[d + 1]

DigitValue(ch) == (CHOOSE i \in 1..10 : Digits[i] = ch) - 1

\* the year_quarter text of quarter q of year y
YearQuarter(y, q) ==
    << DigitChar(y \div 1000), DigitChar((y \div 100) % 10),
       DigitChar((y \div 10) % 10), DigitChar(y % 10), "q", DigitChar(q) >>

\* substr(s, 1, 4)
substr(s, from, len) == SubSeq(s, from, from + len - 1)

\* CAST(digits AS INTEGER)
RECURSIVE CastInteger(_)
CastInteger(s) ==
    IF s = <<>> THEN 0
    ELSE 10 * CastInteger(SubSeq(s, 1, Len(s) - 1)) + DigitValue(s[Len(s)])

\* does the row satisfy one condition
Eval(c, row) ==
    CASE c.op = "=" -> row[c.column] = c.value[1]
      [] c.op = "IN" -> row[c.column] \in Range(c.value)
      [] c.op = ">" -> row[c.column] > c.value[1]
      [] c.op = "BETWEEN" ->
            LET y == CastInteger(substr(row["year_quarter"], 1, 4))
            IN  c.value[1] <= y /\ y <= c.value[2]

\* the conjunction " AND ".join(where)
Satisfies(row, where_stmt) ==
    \A i \in 1..Len(where_stmt) : Eval(where_stmt[i], row)

(***************************************************************************)
(* 3. DATABASE CONNECTION and the two fetch functions                      *)
(***************************************************************************)
\* lines 52-55: what get_con executes when the connection is not cached
SetupStatements ==
    << "INSTALL httpfs; LOAD httpfs;", "SET s3_region='us-west-2';",
       "SET threads = 8;", "SET s3_url_style='path';" >>

\* one con.execute call: who issued it and what was executed
Executed(kind, text, query) == [kind |-> kind, text |-> text, query |-> query]

SetupCalls(n) ==
    [i \in 1..n |-> Executed("setup", SetupStatements[i], NoQuery)]

\* What the engine does with a request:
\*   "setup_fail"  the first statement of get_con raises
\*   "fail"        executing the query raises
\*   "empty"       the query returns no row
\*   "rows"        the query returns at least one row
EngineOutcomes == {"setup_fail", "fail", "empty", "rows"}

\* lines 49-56 under st.cache_resource: the connection is built on the
\* first call and kept; a call that raises caches nothing
get_con(con, res) ==
    IF con = "cached"
    THEN [raised |-> "none", con |-> "cached", executed |-> <<>>]
    ELSE IF res = "setup_fail"
    THEN [raised |-> "ExecutionFailure", con |-> "none",
          executed |-> SetupCalls(1)]
    ELSE [raised |-> "none", con |-> "cached",
          executed |-> SetupCalls(Len(SetupStatements))]

\* the outcome of a fetch: the exception raised if any, the state of the
\* cached connection, the execute calls made, the frame returned (df) and
\* the query
FetchResult(raised, con, executed, df, query) ==
    [raised |-> raised, con |-> con, executed |-> executed, df |-> df,
     query |-> query]

\* lines 101-117
fetch_market_trends(s, con, res) ==
    LET c == get_con(con, res)
        w == build_where_clause(s.product, s.region, s.ba, s.affiliate,
                                s.rate_type, s.service_type, s.year_range)
        query == TrendQuery(w.value)
        call == <<Executed("trend", "", query)>>
    IN  IF c.raised # "none"
        THEN FetchResult(c.raised, c.con, c.executed, "unset", NoQuery)
        ELSE IF w.raised # "none"
        THEN FetchResult(w.raised, c.con, c.executed, "unset", NoQuery)
        ELSE IF res = "fail"
        THEN FetchResult("ExecutionFailure", c.con, c.executed \o call,
                         "unset", NoQuery)
        ELSE FetchResult("none", c.con, c.executed \o call, res, query)

\* fetch_leaderboard with rate_type and service_type passed in the order of
\* the widgets
fetch_leaderboard_swapped(entity_type, s, con, res) ==
    LET c == get_con(con, res)
        w == build_where_clause(s.product, s.region, s.ba, s.affiliate,
                                s.service_type, s.rate_type, s.year_range)
        query == LeaderboardQuery(entity_type, w.value)
        call == <<Executed(entity_type, "", query)>>
    IN  IF c.raised # "none"
        THEN FetchResult(c.raised, c.con, c.executed, "unset", NoQuery)
        ELSE IF w.raised # "none"
        THEN FetchResult(w.raised, c.con, c.executed, "unset", NoQuery)
        ELSE IF res = "fail"
        THEN FetchResult("ExecutionFailure", c.con, c.executed \o call,
                         "unset", NoQuery)
        ELSE FetchResult("none", c.con, c.executed \o call, res, query)

\* fetch_leaderboard with the query executed before the predicate is
\* validated
fetch_leaderboard_late(entity_type, s, con, res) ==
    LET c == get_con(con, res)
        w == build_where_clause(s.product, s.region, s.ba, s.affiliate,
                                s.rate_type, s.service_type, s.year_range)
        query == LeaderboardQuery(entity_type, w.value)
        call == <<Executed(entity_type, "", query)>>
    IN  IF c.raised # "none"
        THEN FetchResult(c.raised, c.con, c.executed, "unset", NoQuery)
        ELSE IF w.raised # "none"
        THEN FetchResult(w.raised, c.con, c.executed \o call, "unset",
                         NoQuery)
        ELSE IF res = "fail"
        THEN FetchResult("ExecutionFailure", c.con, c.executed \o call,
                         "unset", NoQuery)
        ELSE FetchResult("none", c.con, c.executed \o call, res, query)

\* lines 119-137
fetch_leaderboard(entity_type, s, con, res) ==
    LET c == get_con(con, res)
        w == build_where_clause(s.product, s.region, s.ba, s.affiliate,
                                s.rate_type, s.service_type, s.year_range)
        query == LeaderboardQuery(entity_type, w.value)
        call == <<Executed(entity_type, "", query)>>
    IN  IF c.raised # "none"
        THEN FetchResult(c.raised, c.con, c.executed, "unset", NoQuery)
        ELSE IF w.raised # "none"
        THEN FetchResult(w.raised, c.con, c.executed, "unset", NoQuery)
        ELSE IF res = "fail"
        THEN FetchResult("ExecutionFailure", c.con, c.executed \o call,
                         "unset", NoQuery)
        ELSE FetchResult("none", c.con, c.executed \o call, res, query)

(***************************************************************************)
(* 5. DASHBOARD: the state of one run of the page script                   *)
(***************************************************************************)
VARIABLES
    pc,           \* position in the script, or in the direct call
    sel,          \* the seven filter values handed to the fetch functions
    ba_options,   \* the options of the "Balancing Authority" selectbox
    con,          \* "none" or "cached": the st.cache_resource connection
    executed,     \* the con.execute calls of this run, in order
    df_trends,    \* "unset", "empty" or "rows"
    debug_query,  \* the trend query returned by fetch_market_trends
    df_s,         \* "unset", "empty" or "rows"
    df_b,         \* "unset", "empty" or "rows"
    shown,        \* the elements rendered by this run
    raised,       \* the exception that ended the run, or "none"
    fn,           \* SpecCall: the function that was called
    built         \* SpecCall: what build_where_clause returned

vars == << pc, sel, ba_options, con, executed, df_trends, debug_query, df_s,
           df_b, shown, raised, fn, built >>

Selection(product, region, ba, affiliate, rate_type, service_type, year_range) ==
    [product |-> product, region |-> region, ba |-> ba,
     affiliate |-> affiliate, rate_type |-> rate_type,
     service_type |-> service_type, year_range |-> year_range]

\* the slider of line 171
YearMin == 2013

YearMax == 2025

ProductOptions == <<"ENERGY", "CAPACITY">>

AffiliateOptions == <<"All", "Affiliate", "Non-Affiliate">>

ServiceOptions == <<"All", "Firm", "Non-Firm">>

RateOptions == <<"All", "Market-Based", "Cost-Based">>

\* lines 154-157
ba_options_for(region_choice) ==
    IF region_choice = "All Regions"
    THEN <<"All Regions">> \o ALL_BAS_FLAT
    ELSE <<"All BAs in " \o region_choice>>
         \o sorted(Range(BA_REGIONS[region_choice]))

\* the slider positions explored
SliderYears ==
    {y \in YearMin..YearMax : y < YearMin + YearSpan \/ y > YearMax - YearSpan}

\* a range slider returns its two handles in ascending order
SliderRanges == {<<a, b>> \in SliderYears \X SliderYears : a <= b}

\* the entries of a selectbox that are picked
Offered(options) == {options[i] : i \in 1..Min(Len(options), MaxOption)}

\* every widget at its first option, the slider at its full range
Defaults ==
    Selection(ProductOptions[1], regionLabels[1],
              ba_options_for(regionLabels[1])[1], AffiliateOptions[1],
              RateOptions[1], ServiceOptions[1], <<YearMin, YearMax>>)

\* the outcomes the engine can have when the connection is in state c
Outcomes(c) == IF c = "cached" THEN EngineOutcomes \ {"setup_fail"}
               ELSE EngineOutcomes

\* line 178 with the test always true
RendersChart_always(df) == TRUE

\* line 178: if not df_trends.empty
RendersChart(df) == df # "empty"

Init ==
    /\ pc = "widgets"
    /\ sel = Defaults
    /\ ba_options = ba_options_for(Defaults.region)
    /\ con = "none"
    /\ executed = <<>>
    /\ df_trends = "unset"
    /\ debug_query = NoQuery
    /\ df_s = "unset"
    /\ df_b = "unset"
    /\ shown = {}
    /\ raised = "none"
    /\ fn = "none"
    /\ built = Return(<<>>)

\* lines 147-171: the widgets return the user's selection
Widgets ==
    /\ pc = "widgets"
    /\ \E product_choice \in Range(ProductOptions),
          region_choice \in Range(regionLabels),
          affiliate_choice \in Range(AffiliateOptions),
          service_choice \in Range(ServiceOptions),
          rate_choice \in Range(RateOptions),
          year_range \in SliderRanges :
          \E ba_choice \in Offered(ba_options_for(region_choice)) :
             /\ ba_options' = ba_options_for(region_choice)
             /\ sel' = Selection(product_choice, region_choice, ba_choice,
                                 affiliate_choice, rate_choice,
                                 service_choice, year_range)
    /\ pc' = "fetch_trends"
    /\ UNCHANGED << con, executed, df_trends, debug_query, df_s, df_b, shown,
                    raised, fn, built >>

\* lines 174-175
FetchTrends ==
    /\ pc = "fetch_trends"
    /\ \E res \in Outcomes(con) :
          LET r == fetch_market_trends(sel, con, res)
          IN  /\ con' = r.con
              /\ executed' = executed \o r.executed
              /\ raised' = r.raised
              /\ df_trends' = r.df
              /\ debug_query' = r.query
              /\ pc' = IF r.raised = "none" THEN "visualize" ELSE "aborted"
    /\ UNCHANGED << sel, ba_options, df_s, df_b, shown, fn, built >>

\* lines 178-237: the chart and the leaderboard heading
PlotChart ==
    /\ pc = "visualize"
    /\ RendersChart(df_trends)
    /\ shown' = shown \cup {"chart", "leaders_heading"}
    /\ pc' = "top_sellers"
    /\ UNCHANGED << sel, ba_options, con, executed, df_trends, debug_query,
                    df_s, df_b, raised, fn, built >>

\* lines 273-274
NoDataWarning ==
    /\ pc = "visualize"
    /\ ~RendersChart(df_trends)
    /\ shown' = shown \cup {"warning"}
    /\ pc' = "expander"
    /\ UNCHANGED << sel, ba_options, con, executed, df_trends, debug_query,
                    df_s, df_b, raised, fn, built >>

\* lines 247-258
TopSellers ==
    /\ pc = "top_sellers"
    /\ \E res \in Outcomes(con) :
          LET r == fetch_leaderboard("seller", sel, con, res)
          IN  /\ con' = r.con
              /\ executed' = executed \o r.executed
              /\ raised' = r.raised
              /\ df_s' = r.df
              /\ shown' = IF r.raised = "none"
                          THEN shown \cup {"top_sellers"} ELSE shown
              /\ pc' = IF r.raised = "none" THEN "top_buyers" ELSE "aborted"
    /\ UNCHANGED << sel, ba_options, df_trends, debug_query, df_b, fn,
                    built >>

\* lines 260-271
TopBuyers ==
    /\ pc = "top_buyers"
    /\ \E res \in Outcomes(con) :
          LET r == fetch_leaderboard("buyer", sel, con, res)
          IN  /\ con' = r.con
              /\ executed' = executed \o r.executed
              /\ raised' = r.raised
              /\ df_b' = r.df
              /\ shown' = IF r.raised = "none"
                          THEN shown \cup {"top_buyers"} ELSE shown
              /\ pc' = IF r.raised = "none" THEN "expander" ELSE "aborted"
    /\ UNCHANGED << sel, ba_options, df_trends, debug_query, df_s, fn,
                    built >>

\* lines 276-277
Expander ==
    /\ pc = "expander"
    /\ shown' = shown \cup {"sql"}
    /\ pc' = "done"
    /\ UNCHANGED << sel, ba_options, con, executed, df_trends, debug_query,
                    df_s, df_b, raised, fn, built >>

\* a user interaction runs the script again from the top; only the cached
\* connection outlives the run
Rerun ==
    /\ pc \in {"done", "aborted"}
    /\ pc' = "widgets"
    /\ sel' = Defaults
    /\ ba_options' = ba_options_for(Defaults.region)
    /\ executed' = <<>>
    /\ df_trends' = "unset"
    /\ debug_query' = NoQuery
    /\ df_s' = "unset"
    /\ df_b' = "unset"
    /\ shown' = {}
    /\ raised' = "none"
    /\ UNCHANGED << con, fn, built >>

Next ==
    \/ Widgets
    \/ FetchTrends
    \/ PlotChart
    \/ NoDataWarning
    \/ TopSellers
    \/ TopBuyers
    \/ Expander
    \/ Rerun

Spec == Init /\ [][Next]_vars

(***************************************************************************)
(* SpecCall: the functions of section 4 called directly.  The arguments    *)
(* are drawn from a set that holds, besides what the widgets offer, a      *)
(* region label that is not a key of BA_REGIONS, scope choices of other    *)
(* regions, a code of no region, and year pairs in either order.           *)
(***************************************************************************)
\* a label that is not configured (line 33: the region was removed)
UnknownRegionLabel == "Texas (ERCOT)"

\* a code that is in no region
UnknownCode == "ERCO"

KnownRegionArgs ==
    {regionLabels[i] : i \in 1..Min(MaxRegions, Len(regionLabels))}

RegionArgs == KnownRegionArgs \cup {UnknownRegionLabel}

ScopeArgs(region) ==
    {"All Regions", "All BAs in " \o region, UnknownCode}
    \cup UNION {Offered(ba_options_for(r)) : r \in KnownRegionArgs}

YearArgs == SliderYears \X SliderYears

Args ==
    {Selection(p, r, b, a, rt, st, yr) :
        p \in Range(ProductOptions), r \in RegionArgs,
        b \in UNION {ScopeArgs(r2) : r2 \in RegionArgs},
        a \in Range(AffiliateOptions), rt \in Range(RateOptions),
        st \in Range(ServiceOptions), yr \in YearArgs}

InitCall ==
    /\ pc = "call"
    /\ sel \in {s \in Args : s.ba \in ScopeArgs(s.region)}
    /\ ba_options = <<>>
    /\ con \in {"none", "cached"}
    /\ executed = <<>>
    /\ df_trends = "unset"
    /\ debug_query = NoQuery
    /\ df_s = "unset"
    /\ df_b = "unset"
    /\ shown = {}
    /\ raised = "none"
    /\ fn = "none"
    /\ built = Return(<<>>)

\* build_where_clause(*sel)
CallBuildWhereClause ==
    /\ pc = "call"
    /\ fn' = "build_where_clause"
    /\ built' = build_where_clause(sel.product, sel.region, sel.ba,
                                   sel.affiliate, sel.rate_type,
                                   sel.service_type, sel.year_range)
    /\ raised' = built'.raised
    /\ pc' = IF built'.raised = "none" THEN "returned" ELSE "raised"
    /\ UNCHANGED << sel, ba_options, con, executed, df_trends, debug_query,
                    df_s, df_b, shown >>

\* fetch_market_trends(*sel)
CallFetchMarketTrends ==
    /\ pc = "call"
    /\ fn' = "fetch_market_trends"
    /\ \E res \in Outcomes(con) :
          LET r == fetch_market_trends(sel, con, res)
          IN  /\ con' = r.con
              /\ executed' = executed \o r.executed
              /\ raised' = r.raised
              /\ df_trends' = r.df
              /\ debug_query' = r.query
              /\ pc' = IF r.raised = "none" THEN "returned" ELSE "raised"
    /\ UNCHANGED << sel, ba_options, df_s, df_b, shown, built >>

\* fetch_leaderboard(entity_type, *sel)
CallFetchLeaderboard ==
    /\ pc = "call"
    /\ \E entity_type \in {"seller", "buyer"}, res \in Outcomes(con) :
          LET r == fetch_leaderboard(entity_type, sel, con, res)
          IN  /\ fn' = "fetch_leaderboard"
              /\ con' = r.con
              /\ executed' = executed \o r.executed
              /\ raised' = r.raised
              /\ df_s' = IF entity_type = "seller" THEN r.df ELSE df_s
              /\ df_b' = IF entity_type = "buyer" THEN r.df ELSE df_b
              /\ pc' = IF r.raised = "none" THEN "returned" ELSE "raised"
    /\ UNCHANGED << sel, ba_options, df_trends, debug_query, shown, built >>

NextCall ==
    \/ CallBuildWhereClause
    \/ CallFetchMarketTrends
    \/ CallFetchLeaderboard

SpecCall == InitCall /\ [][NextCall]_vars

(***************************************************************************)
(* Properties                                                              *)
(***************************************************************************)
\* the conditions of a predicate that test the given column
OnColumn(where_stmt, column) ==
    SelectSeq(where_stmt, LAMBDA c : c.column = column)

\* the scope choice is one of the two sentinels, not an entity code
IsWildcard(region, ba) == ba = "All BAs in " \o region \/ ba = "All Regions"

\* the execute calls of the run that carry a query
QueryCalls == SelectSeq(executed, LAMBDA e : e.kind # "setup")

\* C1: build_where_clause adds the regional condition by the tie-break:
\* a scope choice that is neither "All BAs in <region>" nor "All Regions"
\* gives exactly one equality on that code and no IN; otherwise a region
\* other than "All Regions" gives exactly one IN over BA_REGIONS[region];
\* otherwise there is no balancing-authority condition.
C1_RegionalTieBreak ==
    fn = "build_where_clause" =>
        LET regional == OnColumn(built.value, BA_COLUMN)
        IN  /\ ~IsWildcard(sel.region, sel.ba) =>
                  /\ built.raised = "none"
                  /\ Len(regional) = 1
                  /\ regional[1].op = "="
                  /\ regional[1].value = <<sel.ba>>
            /\ ( /\ IsWildcard(sel.region, sel.ba)
                 /\ sel.region # "All Regions"
                 /\ sel.region \in DOMAIN BA_REGIONS ) =>
                  /\ built.raised = "none"
                  /\ Len(regional) = 1
                  /\ regional[1].op = "IN"
                  /\ regional[1].value = BA_REGIONS[sel.region]
            /\ ( /\ IsWildcard(sel.region, sel.ba)
                 /\ sel.region = "All Regions" ) =>
                  /\ built.raised = "none"
                  /\ regional = <<>>

\* a region with the global sentinel as scope: the second branch decides
C1_Witness ==
    /\ fn = "build_where_clause"
    /\ pc = "returned"
    /\ sel.region = "California (CISO)"
    /\ sel.ba = "All Regions"
    /\ Len(OnColumn(built.value, BA_COLUMN)) = 1

\* C2: the trend query and the two leaderboard queries of a run embed the
\* same predicate, condition by condition in the same order, and the seller
\* and buyer queries differ in the grouping column and in nothing else.
C2_SamePredicate ==
    \A i, j \in 1..Len(QueryCalls) :
        LET a == QueryCalls[i]
            b == QueryCalls[j]
        IN  /\ a.query.where = b.query.where
            /\ (a.kind = "seller" /\ b.kind = "buyer") =>
                  /\ a.query.select[1].expr = "seller_company_name"
                  /\ b.query.select[1].expr = "customer_company_name"
                  /\ [a.query EXCEPT !.select[1].expr =
                                         b.query.select[1].expr] = b.query

\* all three queries were executed for a selection that sets two facets
C2_Witness ==
    /\ pc = "done"
    /\ Len(QueryCalls) = 3
    /\ sel.rate_type = "Market-Based"
    /\ sel.service_type = "Non-Firm"
    /\ sel.ba # "All Regions"

\* C3: the codes offered for "All Regions" are the union of the code lists
\* of the other regions, without a duplicate and without the "All Regions"
\* entry, while the regions themselves still overlap (WALC is listed under
\* California and under Southwest).
C3_AllRegionsFlattening ==
    (pc # "widgets" /\ sel.region = "All Regions") =>
        LET others == DOMAIN BA_REGIONS \ {"All Regions"}
            union == UNION {Range(BA_REGIONS[r]) : r \in others}
            resolved == Tail(ba_options)
        IN  /\ resolved = ALL_BAS_FLAT
            /\ Range(resolved) = union
            /\ Len(resolved) = Cardinality(union)
            /\ "All Regions" \notin Range(resolved)
            /\ "WALC" \in Range(BA_REGIONS["California (CISO)"])
                            \cap Range(BA_REGIONS["Southwest (SW)"])
            /\ \A r \in others :
                  Len(BA_REGIONS[r]) = Cardinality(Range(BA_REGIONS[r]))

\* the page has resolved the options of "All Regions"
C3_Witness ==
    /\ pc = "fetch_trends"
    /\ sel.region = "All Regions"
    /\ "WALC" \in Range(ba_options)
    /\ sel.ba # "All Regions"

\* the code set a scope choice must come from: the list of the region, or
\* the flattened list for "All Regions"
CodesForRegion(region) ==
    IF region = "All Regions" THEN Range(ALL_BAS_FLAT)
    ELSE Range(BA_REGIONS[region])

\* C4: every code build_where_clause embeds in the regional condition
\* belongs to the code set of the selected region, and a single entity code
\* outside that set is rejected as InvalidEntityScope.
C4_ScopeWithinRegion ==
    (fn = "build_where_clause" /\ sel.region \in DOMAIN BA_REGIONS) =>
        LET regional == OnColumn(built.value, BA_COLUMN)
        IN  /\ \A i \in 1..Len(regional) :
                  Range(regional[i].value) \subseteq CodesForRegion(sel.region)
            /\ ( /\ ~IsWildcard(sel.region, sel.ba)
                 /\ sel.ba \notin CodesForRegion(sel.region) ) =>
                  built.raised = "InvalidEntityScope"

\* C5: a year range with start > end is rejected as InvalidYearRange before
\* anything is built: no predicate, no query, no execute call carrying a
\* query; a range with start <= end gives one condition that admits exactly
\* the periods whose 4-digit year prefix lies in start..end.
C5_YearRange ==
    fn # "none" =>
        LET start_year == sel.year_range[1]
            end_year == sel.year_range[2]
            years == OnColumn(built.value, YEAR_EXPR)
        IN  /\ start_year > end_year =>
                  /\ raised = "InvalidYearRange"
                  /\ built.value = <<>>
                  /\ debug_query = NoQuery
                  /\ QueryCalls = <<>>
            /\ ( /\ start_year <= end_year
                 /\ fn = "build_where_clause"
                 /\ built.raised = "none" ) =>
                  /\ Len(years) = 1
                  /\ \A y \in (YearMin - 1)..(YearMax + 1), q \in 1..4 :
                        Eval(years[1], [year_quarter |-> YearQuarter(y, q)])
                          <=> (start_year <= y /\ y <= end_year)

\* C6: a region label that is not a key of BA_REGIONS makes the
\* construction fail with an error, whatever the scope choice is.
C6_UnknownRegion ==
    (fn = "build_where_clause" /\ sel.region \notin DOMAIN BA_REGIONS) =>
        /\ built.raised \in {"UnknownRegion", "KeyError"}
        /\ built.value = <<>>

\* the values a facet column is given in the rows the conditions are
\* tried on: the two named codes and one more
FacetCodes ==
    [contract_affiliate |-> {"TRUE", "FALSE"},
     product_type_name |-> {"MB", "CB", "OTHER"},
     class_name |-> {"F", "NF", "UP"}]

\* the codes of a facet column that the conditions on that column admit
Admitted(where_stmt, column) ==
    {v \in FacetCodes[column] :
        Satisfies([k \in {column} |-> v], OnColumn(where_stmt, column))}

\* the code each named facet value is mapped to
FacetCode ==
    [contract_affiliate |-> ("Affiliate" :> "TRUE" @@ "Non-Affiliate" :> "FALSE"),
     product_type_name |-> ("Market-Based" :> "MB" @@ "Cost-Based" :> "CB"),
     class_name |-> ("Firm" :> "F" @@ "Non-Firm" :> "NF")]

FacetAsClaimed(where_stmt, column, choice) ==
    LET conds == OnColumn(where_stmt, column)
    IN  IF choice = "All"
        THEN /\ conds = <<>>
             /\ Admitted(where_stmt, column) = FacetCodes[column]
        ELSE /\ Len(conds) = 1
             /\ conds[1].op = "="
             /\ conds[1].value = <<FacetCode[column][choice]>>
             /\ Admitted(where_stmt, column) = {FacetCode[column][choice]}

\* C7: for affiliate, rate basis and service class, "All" adds no condition
\* on the facet's column, so every code of the column stays admitted (UP
\* for the service class), and a named value adds exactly one equality with
\* its mapped code, which admits that code and no other.
C7_OptionalFacets ==
    debug_query # NoQuery =>
        /\ FacetAsClaimed(debug_query.where, "contract_affiliate",
                          sel.affiliate)
        /\ FacetAsClaimed(debug_query.where, "product_type_name",
                          sel.rate_type)
        /\ FacetAsClaimed(debug_query.where, "class_name", sel.service_type)

\* a trend query built with one facet at "All" and two at named values
C7_Witness ==
    /\ debug_query # NoQuery
    /\ sel.service_type = "All"
    /\ sel.rate_type = "Market-Based"
    /\ sel.affiliate = "Non-Affiliate"
    /\ "UP" \in Admitted(debug_query.where, "class_name")

\* the selection of the scenario
Scenario ==
    Selection("ENERGY", "All Regions", "All Regions", "All", "All", "All",
              <<2013, 2025>>)

\* the scenario's trend query has no regional or facet condition and is
\* grouped by its first column, the period
ScenarioShape ==
    /\ OnColumn(debug_query.where, BA_COLUMN) = <<>>
    /\ OnColumn(debug_query.where, "contract_affiliate") = <<>>
    /\ OnColumn(debug_query.where, "product_type_name") = <<>>
    /\ OnColumn(debug_query.where, "class_name") = <<>>
    /\ debug_query.group_by = <<1>>
    /\ debug_query.select[1].expr = "year_quarter"

\* C8 as stated: the predicate of the scenario has exactly 4 conditions.
C8_FourConditions ==
    (sel = Scenario /\ debug_query # NoQuery) =>
        /\ Len(debug_query.where) = 4
        /\ ScenarioShape

\* C8: for the scenario the predicate has exactly 5 conditions (product,
\* term, unit, positive rate, year range), none of them regional, affiliate,
\* rate-basis or service-class, and the trend query groups by the period
\* column only.
C8_FiveConditions ==
    (sel = Scenario /\ debug_query # NoQuery) =>
        /\ Len(debug_query.where) = 5
        /\ [i \in 1..5 |-> debug_query.where[i].column] =
              <<"product_name", "term_name", "rate_units", "rate", YEAR_EXPR>>
        /\ ScenarioShape

\* the page has run the trend query of the scenario
C8_Witness ==
    /\ sel = Scenario
    /\ pc = "done"
    /\ debug_query # NoQuery
    /\ Len(QueryCalls) >= 1

\* C9: a trend query that returns no row ends in the no-data outcome: the
\* warning is shown, neither the chart nor a leaderboard table is rendered,
\* no leaderboard query is run, and no exception ended the run; the warning
\* is shown in no other outcome.
C9_EmptyResult ==
    /\ (df_trends = "empty" /\ pc \in {"expander", "done"}) =>
          /\ "warning" \in shown
          /\ shown \cap {"chart", "leaders_heading", "top_sellers",
                         "top_buyers"} = {}
          /\ Len(QueryCalls) = 1
          /\ raised = "none"
    /\ "warning" \in shown => (df_trends = "empty" /\ raised = "none")
    /\ df_trends = "empty" => pc \in {"visualize", "expander", "done"}

\* a run that ended with the warning
C9_Witness ==
    /\ pc = "done"
    /\ df_trends = "empty"
    /\ shown = {"warning", "sql"}

\* C10 as stated: no execute call at all precedes a construction error.
C10_NoExecuteBeforeError ==
    raised = "KeyError" => executed = <<>>

\* C10: no query is executed before or after a construction error: when
\* build_where_clause raises, the only execute calls of the request are the
\* set-up statements of get_con, made when the connection was not cached
\* yet, and nothing is returned.
C10_NoQueryAroundError ==
    raised = "KeyError" =>
        /\ QueryCalls = <<>>
        /\ executed \in {<<>>, SetupCalls(Len(SetupStatements))}
        /\ debug_query = NoQuery
        /\ df_trends = "unset" /\ df_s = "unset" /\ df_b = "unset"

\* fetch_leaderboard raised the construction error after get_con had set
\* the connection up
C10_Witness ==
    /\ fn = "fetch_leaderboard"
    /\ raised = "KeyError"
    /\ pc = "raised"
    /\ Len(executed) = Len(SetupStatements)
    /\ sel.region = UnknownRegionLabel
====
